---- MODULE Spec2Model ----
(***************************************************************************)
(* Model of the fitness_app extraction / scoring / aggregation pipeline:   *)
(*   llm_client.py  parse_health_json, calculate_points,                   *)
(*                  extract_health_data_from_text, empty_health_data       *)
(*   main.py        process_folder, update_folder                          *)
(*   db.py          save_results_to_db, export_records_to_excel,           *)
(*                  generate_leaderboard                                   *)
(*                                                                         *)
(* Python values are encoded as follows.                                   *)
(*   Optional[int] / Optional[float] / Optional[str]:                      *)
(*        [none |-> BOOLEAN, v |-> value]                                  *)
(*   float: an integer number of tenths (250.5 is 2505)                    *)
(*   a JSON value: [ty, n, s, pad, up]; for a string, s is the text        *)
(*        stripped and lower-cased, pad says that it carries surrounding   *)
(*        whitespace and up that it carries upper-case letters             *)
(*   the raw model output: a sequence of tokens "{", "}", ",", junk text   *)
(*        and members ("key": value)                                       *)
(***************************************************************************)
EXTENDS Integers, Sequences, FiniteSets, TLC

VARIABLES
    pc,                                        \* where the operation under study is
    text, llm_raw, result, llm_calls,          \* extract_health_data_from_text
    cp_steps, cp_workout, cp_points,           \* calculate_points called alone
    records, summary,                          \* export_records_to_excel
    reordered, summary2,                       \* the same records in another order
    store, leaderboard,                        \* the data folder, leader_board.xlsx
    images, idx, results, save_calls,          \* process_folder
    sheet_b, processed_set, sheet_reads, touched \* update_folder

extractVars == <<text, llm_raw, result, llm_calls>>
pointsVars == <<cp_steps, cp_workout, cp_points>>
aggVars == <<records, summary, reordered, summary2>>
leaderVars == <<store, leaderboard>>
batchVars == <<images, idx, results, save_calls>>
updateVars == <<sheet_b, processed_set, sheet_reads, touched>>
vars == <<pc, extractVars, pointsVars, aggVars, leaderVars, batchVars, updateVars>>

(***************************************************************************)
(* Bounds of the model                                                     *)
(***************************************************************************)
MaxRawLen == 4
MaxTextLen == 2
MaxRecords == 2
MaxSheets == 2
MaxImages == 3
MaxRuns == 2

(***************************************************************************)
(* Python optionals                                                        *)
(***************************************************************************)
None == [none |-> TRUE, v |-> 0]
Some(x) == [none |-> FALSE, v |-> x]
NoneStr == [none |-> TRUE, v |-> ""]
SomeStr(s) == [none |-> FALSE, v |-> s]

(***************************************************************************)
(* JSON values                                                             *)
(***************************************************************************)
JVal(ty, n, s, pad, up) == [ty |-> ty, n |-> n, s |-> s, pad |-> pad, up |-> up]
JNull == JVal("null", 0, "", FALSE, FALSE)
JInt(i) == JVal("int", i, "", FALSE, FALSE)
JFloat(tenths) == JVal("float", tenths, "", FALSE, FALSE)
JBool(b) == JVal("bool", IF b THEN 1 ELSE 0, "", FALSE, FALSE)
JStr(s) == JVal("str", 0, s, FALSE, FALSE)
JStrPadUp(s) == JVal("str", 0, s, TRUE, TRUE)
JStrPad(s) == JVal("str", 0, s, TRUE, FALSE)
JList == JVal("list", 0, "", FALSE, FALSE)

(***************************************************************************)
(* Tokens of the raw model output                                          *)
(***************************************************************************)
Tok(t, k, v) == [t |-> t, k |-> k, v |-> v]
LB == Tok("{", "", JNull)
RB == Tok("}", "", JNull)
COMMA == Tok(",", "", JNull)
JUNK == Tok("junk", "", JNull)
Mem(k, v) == Tok("mem", k, v)

\* str.find / str.rfind of a one-character token: 0-based index, -1 if absent
find(raw, t) ==
    IF \E i \in 1..Len(raw) : raw[i].t = t
    THEN (CHOOSE i \in 1..Len(raw) :
              raw[i].t = t /\ \A j \in 1..(i - 1) : raw[j].t # t) - 1
    ELSE -1

rfind(raw, t) ==
    IF \E i \in 1..Len(raw) : raw[i].t = t
    THEN (CHOOSE i \in 1..Len(raw) :
              raw[i].t = t /\ \A j \in (i + 1)..Len(raw) : raw[j].t # t) - 1
    ELSE -1

\* raw[start : end + 1] with 0-based start and end
slice(raw, start, end) == SubSeq(raw, start + 1, end + 1)

\* json.loads accepts exactly  { }  and  { member , member , ... member }
json_valid(js) ==
    /\ Len(js) >= 2
    /\ js[1].t = "{"
    /\ js[Len(js)].t = "}"
    /\ LET m == Len(js) - 2
       IN  \/ m = 0
           \/ /\ m % 2 = 1
              /\ \A i \in 1..m :
                    js[i + 1].t = (IF i % 2 = 1 THEN "mem" ELSE ",")

\* the dict json.loads builds: the members in order (a later duplicate key wins)
json_loads(js) == SelectSeq(js, LAMBDA tk : tk.t = "mem")

\* obj.get(key): the value of the last member with that key, None if absent
obj_get(obj, key) ==
    IF \E i \in 1..Len(obj) : obj[i].k = key
    THEN obj[CHOOSE i \in 1..Len(obj) :
                 obj[i].k = key /\ \A j \in (i + 1)..Len(obj) : obj[j].k # key].v
    ELSE JNull

(***************************************************************************)
(* int(str) and float(str) on the strings of the model                     *)
(***************************************************************************)
IntStrings == {"7000", "50000"}
FloatStrings == {"7000", "50000", "12.5"}

int_of_str(s) == IF s = "7000" THEN 7000 ELSE 50000

float_of_str(s) == IF s = "7000" THEN 70000 ELSE IF s = "50000" THEN 500000 ELSE 125

\* int(float): truncation toward zero of a number of tenths
trunc(tenths) == IF tenths >= 0 THEN tenths \div 10 ELSE -((-tenths) \div 10)

\* to_int, llm_client.py:117
to_int(v) ==
    CASE v.ty = "null"  -> None
      [] v.ty = "int"   -> Some(v.n)
      [] v.ty = "bool"  -> Some(v.n)
      [] v.ty = "float" -> Some(trunc(v.n))
      [] v.ty = "str"   -> IF v.s \in IntStrings THEN Some(int_of_str(v.s)) ELSE None
      [] OTHER          -> None

\* to_float, llm_client.py:125
to_float(v) ==
    CASE v.ty = "null"  -> None
      [] v.ty = "int"   -> Some(v.n * 10)
      [] v.ty = "bool"  -> Some(v.n * 10)
      [] v.ty = "float" -> Some(v.n)
      [] v.ty = "str"   -> IF v.s \in FloatStrings THEN Some(float_of_str(v.s)) ELSE None
      [] OTHER          -> None

\* v.strip() and .lower() on a JSON string
str_strip(v) == [v EXCEPT !.pad = FALSE]
str_lower(v) == [v EXCEPT !.up = FALSE]

\* the Python string a JSON string value denotes is one of the plain strings S
str_in(v, S) == ~v.pad /\ ~v.up /\ v.s \in S

allowed == {"sport", "strength_training", "cardio", "yoga"}

alias_keys == {"strength", "strength-training", "strength training"}

\* if v_norm in aliases: v_norm = aliases[v_norm]
aliases(v) == IF str_in(v, alias_keys) THEN [v EXCEPT !.s = "strength_training"] ELSE v

\* normalize_workout_type, llm_client.py:133
normalize_workout_type(v) ==
    IF v.ty = "null" THEN NoneStr
    ELSE IF v.ty # "str" THEN NoneStr
    ELSE LET v_norm == aliases(str_lower(str_strip(v)))
         IN  IF str_in(v_norm, allowed) THEN SomeStr(v_norm.s) ELSE NoneStr

(***************************************************************************)
(* calculate_points, llm_client.py:189                                     *)
(***************************************************************************)
step_points(steps) ==
    IF steps <= 5000 THEN 25
    ELSE IF steps <= 8000 THEN 35
    ELSE IF steps <= 10000 THEN 80
    ELSE IF steps <= 15000 THEN 150
    ELSE IF steps <= 20000 THEN 300
    ELSE 500

\* workout_points.get(workout_type, 0)
workout_points(workout_type) ==
    IF workout_type.none THEN 0
    ELSE IF workout_type.v \in {"sport", "strength_training"} THEN 300
    ELSE IF workout_type.v \in {"cardio", "yoga"} THEN 200
    ELSE 0

calculate_points_WithSteps(steps, workout_type) ==
    step_points(steps) + workout_points(workout_type)

\* step_points is computed and dropped: the function returns workout_score
calculate_points(steps, workout_type) ==
    LET workout_score == workout_points(workout_type)
    IN  workout_score


\* None <= 5000 raises TypeError (llm_client.py:199)
calculate_points_raises(steps) == steps.none

(***************************************************************************)
(* HealthData (models.py) and the outcome of a call: a returned record or  *)
(* the class of the exception that left the function                       *)
(***************************************************************************)
HealthData(steps, calories_kcal, distance_km, active_time_minutes, workout_type, total_points) ==
    [steps |-> steps, calories_kcal |-> calories_kcal, distance_km |-> distance_km,
     active_time_minutes |-> active_time_minutes, workout_type |-> workout_type,
     total_points |-> total_points]

NoHealth == HealthData(None, None, None, None, NoneStr, None)
Return(h) == [exc |-> "", rec |-> h]
Raise(e) == [exc |-> e, rec |-> NoHealth]
NotCalled == Raise("not called")

\* the guard on the parsed steps, llm_client.py:152
steps_guard(parsed) == IF ~parsed.none /\ parsed.v > 40000 THEN 20000 ELSE 0

\* the span test of llm_client.py:106
no_span(start, end) == start = -1 \/ end = -1 \/ start > end

\* llm_client.py:107: no JSON object located
on_no_span == Raise("LLMExtractionError")

\* llm_client.py:113: json.JSONDecodeError is caught and re-raised
on_decode_error_Fallback == [exc |-> "", rec |-> HealthData(Some(0), None, None, None, NoneStr, Some(0))]

on_decode_error == Raise("LLMExtractionError")

\* the total_points handed to HealthData, llm_client.py:163: obj is not read
total_points_of_Supplied(obj, steps, workout_type) ==
    IF to_int(obj_get(obj, "total_points")).none
    THEN calculate_points(steps, workout_type)
    ELSE to_int(obj_get(obj, "total_points")).v

total_points_of(obj, steps, workout_type) == calculate_points(steps, workout_type)

\* parse_health_json, llm_client.py:98
parse_health_json(raw) ==
    LET start == find(raw, "{")
        end == rfind(raw, "}")
    IN  IF no_span(start, end)
        THEN on_no_span
        ELSE LET json_str == slice(raw, start, end)
             IN  IF ~json_valid(json_str)
                 THEN on_decode_error
                 ELSE LET obj == json_loads(json_str)
                          steps1 == steps_guard(to_int(obj_get(obj, "steps")))
                          points_steps == to_int(obj_get(obj, "steps"))
                          points_workout == normalize_workout_type(obj_get(obj, "workout_type"))
                      IN  IF calculate_points_raises(points_steps)
                          THEN Raise("TypeError")
                          ELSE Return(HealthData(
                                   Some(steps1),
                                   to_float(obj_get(obj, "calories_kcal")),
                                   to_float(obj_get(obj, "distance_km")),
                                   to_float(obj_get(obj, "active_time_minutes")),
                                   normalize_workout_type(obj_get(obj, "workout_type")),
                                   Some(total_points_of(obj, points_steps.v, points_workout))))

\* empty_health_data, llm_client.py:179 (pydantic stores the int 0 as 0.0)
empty_health_data ==
    HealthData(Some(0), Some(0), Some(0), Some(0), SomeStr(""), Some(0))

(***************************************************************************)
(* OCR text: a sequence of characters, " " for whitespace, "x" for any     *)
(* other character                                                         *)
(***************************************************************************)
RECURSIVE lstrip(_)
lstrip(t) == IF t # <<>> /\ Head(t) = " " THEN lstrip(Tail(t)) ELSE t

RECURSIVE rstrip(_)
rstrip(t) ==
    IF t # <<>> /\ t[Len(t)] = " " THEN rstrip(SubSeq(t, 1, Len(t) - 1)) ELSE t

strip(t) == rstrip(lstrip(t))

\* the guard "not text or not text.strip()", llm_client.py:170
is_blank_OnlyEmpty(t) == t = <<>>

is_blank(t) == t = <<>> \/ strip(t) = <<>>

\* what call_togather_ai does when called: it returns raw, or it raises
Answer(raw) == [ok |-> TRUE, raw |-> raw]
CallFails == [ok |-> FALSE, raw |-> <<>>]

\* extract_health_data_from_text, llm_client.py:168: the outcome, and whether
\* the model was called
extract_health_data_from_text(t, answer) ==
    IF is_blank(t)
    THEN [result |-> Return(empty_health_data), called |-> FALSE]
    ELSE [result |-> IF answer.ok THEN parse_health_json(answer.raw) ELSE Raise("APIError"),
          called |-> TRUE]


(***************************************************************************)
(* export_records_to_excel, db.py:190.  A record is one dict of            *)
(* excel_records; a summary row is one row of the "Daily Summary" sheet.   *)
(* A string built with join is a sequence of pieces: words, "," and " ".   *)
(***************************************************************************)
\* every email / workout type of the model, in Python's string order
EmailOrder == <<"alice", "bob", "carol.png">>
WorkoutOrder == <<"cardio", "sport", "strength_training", "yoga">>

RECURSIVE seq_sum(_)
seq_sum(xs) == IF xs = <<>> THEN 0 ELSE Head(xs) + seq_sum(Tail(xs))

RECURSIVE seq_max(_)
seq_max(xs) ==
    IF Len(xs) = 1 THEN Head(xs)
    ELSE LET m == seq_max(Tail(xs)) IN IF Head(xs) >= m THEN Head(xs) ELSE m

\* the values of a column that are not None (pandas skips NaN in max and sum)
present(g, col) ==
    LET some == SelectSeq(g, LAMBDA r : ~r[col].none)
    IN  [i \in 1..Len(some) |-> some[i][col].v]

\* "max": NaN for a group with no value
agg_max(g, col) ==
    IF present(g, col) = <<>> THEN None ELSE Some(seq_max(present(g, col)))

\* "sum": 0 for a group with no value
agg_sum(g, col) == seq_sum(present(g, col))

RECURSIVE join(_, _)
join(sep, strs) ==
    IF strs = <<>> THEN <<>>
    ELSE IF Len(strs) = 1 THEN Head(strs)
    ELSE Head(strs) \o sep \o join(sep, Tail(strs))

\* the distinct items of a sequence in the order of their first appearance
RECURSIVE first_seen(_, _)
first_seen(xs, seen) ==
    IF xs = <<>> THEN <<>>
    ELSE IF Head(xs) \in seen THEN first_seen(Tail(xs), seen)
    ELSE <<Head(xs)>> \o first_seen(Tail(xs), seen \cup {Head(xs)})

\* lambda x: ", ".join(sorted(set(filter(None, x)))), db.py:216
agg_workout_type_Unsorted(g) ==
    LET kept == SelectSeq([i \in 1..Len(g) |-> g[i].workout_type],
                          LAMBDA w : ~w.none /\ w.v # "")
        uniq == first_seen([i \in 1..Len(kept) |-> kept[i].v], {})
    IN  join(<<",", " ">>, [i \in 1..Len(uniq) |-> <<uniq[i]>>])

agg_workout_type(g) ==
    LET kept == {g[i].workout_type.v : i \in {j \in 1..Len(g) :
                     ~g[j].workout_type.none /\ g[j].workout_type.v # ""}}
        sorted == SelectSeq(WorkoutOrder, LAMBDA w : w \in kept)
    IN  join(<<",", " ">>, [i \in 1..Len(sorted) |-> <<sorted[i]>>])

\* np.select over the day's steps, db.py:223 (every comparison with NaN is False)
np_select_step_points(steps) ==
    IF steps.none THEN 500
    ELSE IF steps.v <= 5000 THEN 25
    ELSE IF steps.v <= 8000 THEN 35
    ELSE IF steps.v <= 10000 THEN 80
    ELSE IF steps.v <= 15000 THEN 150
    ELSE IF steps.v <= 20000 THEN 300
    ELSE 500

\* one row of summary_df: the group of one email, db.py:208-239
summary_row_SumsSteps(email, g) ==
    [email |-> email,
     total_steps |-> Some(agg_sum(g, "steps")),
     total_calories_kcal |-> agg_sum(g, "calories_kcal"),
     total_distance_km |-> agg_sum(g, "distance_km"),
     total_active_time_minutes |-> agg_sum(g, "active_time_minutes"),
     total_points |-> agg_sum(g, "total_points")
                      + np_select_step_points(Some(agg_sum(g, "steps"))),
     workout_types |-> agg_workout_type(g)]

summary_row(email, g) ==
    [email |-> email,
     total_steps |-> agg_max(g, "steps"),
     total_calories_kcal |-> agg_sum(g, "calories_kcal"),
     total_distance_km |-> agg_sum(g, "distance_km"),
     total_active_time_minutes |-> agg_sum(g, "active_time_minutes"),
     total_points |-> agg_sum(g, "total_points")
                      + np_select_step_points(agg_max(g, "steps")),
     workout_types |-> agg_workout_type(g)]

\* df.groupby("email"): the groups in ascending order of email
groupby_email(rows) ==
    LET keys == SelectSeq(EmailOrder, LAMBDA e : \E i \in 1..Len(rows) : rows[i].email = e)
    IN  [k \in 1..Len(keys) |->
            [email |-> keys[k],
             rows |-> SelectSeq(rows, LAMBDA r : r.email = keys[k])]]

\* the "Daily Summary" sheet, or the KeyError of groupby("email") on an empty frame
export_records_to_excel(recs) ==
    IF recs = <<>>
    THEN [exc |-> "KeyError", rows |-> <<>>]
    ELSE LET groups == groupby_email(recs)
         IN  [exc |-> "",
              rows |-> [k \in 1..Len(groups) |->
                           summary_row(groups[k].email, groups[k].rows)]]

NoSummary == [exc |-> "not called", rows |-> <<>>]

(***************************************************************************)
(* generate_leaderboard, db.py:263.  The data folder is the sequence of    *)
(* fitness_data_*.xlsx files in the order os.walk yields them; a file is   *)
(* [folder, daily, summary]: its date folder and its two sheets.           *)
(***************************************************************************)
\* pd.read_excel of a "Daily Summary" sheet: xlsxwriter leaves the cell of an
\* empty string blank, and a blank cell is read back as NaN
read_excel(rows) ==
    [i \in 1..Len(rows) |->
        [rows[i] EXCEPT !.workout_types =
            IF rows[i].workout_types = <<>>
            THEN [none |-> TRUE, v |-> <<>>]
            ELSE [none |-> FALSE, v |-> rows[i].workout_types]]]

\* pd.concat(all_summary_dfs, ignore_index=True)
RECURSIVE concat(_)
concat(dfs) == IF dfs = <<>> THEN <<>> ELSE Head(dfs) \o concat(Tail(dfs))

\* str.split(","): the pieces between the commas
RECURSIVE split(_, _)
split(str, cur) ==
    IF str = <<>> THEN <<cur>>
    ELSE IF Head(str) = "," THEN <<cur>> \o split(Tail(str), <<>>)
    ELSE split(Tail(str), Append(cur, Head(str)))

\* every token split can yield here, in Python's string order (" " < letters)
TokenOrder ==
    <<<<>>,
      <<" ", "cardio">>, <<" ", "sport">>, <<" ", "strength_training">>, <<" ", "yoga">>,
      <<"cardio">>, <<"sport">>, <<"strength_training">>, <<"yoga">>>>

\* lambda x: ", ".join(sorted(set(",".join(x).split(",")))), db.py:298
agg_workout_types(g) ==
    LET joined == join(<<",">>, [i \in 1..Len(g) |-> g[i].workout_types.v])
        tokens == split(joined, <<>>)
        uniq == {tokens[i] : i \in 1..Len(tokens)}
        sorted == SelectSeq(TokenOrder, LAMBDA t : t \in uniq)
    IN  join(<<",", " ">>, sorted)

\* ",".join(x) raises TypeError on a NaN item
agg_workout_types_raises(g) == \E i \in 1..Len(g) : g[i].workout_types.none

\* the sum of an integer column (of total_steps: NaN counts as 0)
RECURSIVE col_sum(_, _)
col_sum(g, col) ==
    IF g = <<>> THEN 0
    ELSE (IF col = "total_steps"
          THEN (IF Head(g).total_steps.none THEN 0 ELSE Head(g).total_steps.v)
          ELSE Head(g)[col]) + col_sum(Tail(g), col)

\* one row of leaderboard_df before ranking, db.py:292-299
leaderboard_row_MaxSteps(email, g) ==
    [email |-> email,
     total_steps |-> seq_max([i \in 1..Len(g) |->
                         IF g[i].total_steps.none THEN 0 ELSE g[i].total_steps.v]),
     total_calories_kcal |-> col_sum(g, "total_calories_kcal"),
     total_distance_km |-> col_sum(g, "total_distance_km"),
     total_active_time_minutes |-> col_sum(g, "total_active_time_minutes"),
     total_points |-> col_sum(g, "total_points"),
     workout_types |-> agg_workout_types(g)]

leaderboard_row(email, g) ==
    [email |-> email,
     total_steps |-> col_sum(g, "total_steps"),
     total_calories_kcal |-> col_sum(g, "total_calories_kcal"),
     total_distance_km |-> col_sum(g, "total_distance_km"),
     total_active_time_minutes |-> col_sum(g, "total_active_time_minutes"),
     total_points |-> col_sum(g, "total_points"),
     workout_types |-> agg_workout_types(g)]

\* sort_values(by='total_points', ascending=False) with the default
\* kind='quicksort', which is not stable: every descending order of the rows
sort_values_Ascending(rows) ==
    {p \in [1..Len(rows) -> 1..Len(rows)] :
        /\ \A i, j \in 1..Len(rows) : i # j => p[i] # p[j]
        /\ \A i, j \in 1..Len(rows) :
              i < j => rows[p[i]].total_points <= rows[p[j]].total_points}

sort_values(rows) ==
    {p \in [1..Len(rows) -> 1..Len(rows)] :
        /\ \A i, j \in 1..Len(rows) : i # j => p[i] # p[j]
        /\ \A i, j \in 1..Len(rows) :
              i < j => rows[p[i]].total_points >= rows[p[j]].total_points}

\* leaderboard_df['rank'] = range(1, len(leaderboard_df) + 1), db.py:303
with_rank(rows, p) ==
    [k \in 1..Len(rows) |->
        [rank |-> k,
         email |-> rows[p[k]].email,
         total_steps |-> rows[p[k]].total_steps,
         total_calories_kcal |-> rows[p[k]].total_calories_kcal,
         total_distance_km |-> rows[p[k]].total_distance_km,
         total_active_time_minutes |-> rows[p[k]].total_active_time_minutes,
         total_points |-> rows[p[k]].total_points,
         workout_types |-> rows[p[k]].workout_types]]

NoLeaderboard == [exc |-> "not called", rows |-> <<>>]

\* the leaderboards generate_leaderboard can write for the files, or the
\* exception it raises
generate_leaderboard(files) ==
    IF files = <<>>
    THEN {[exc |-> "ValueError", rows |-> <<>>]}
    ELSE LET combined_df == concat([i \in 1..Len(files) |-> read_excel(files[i].summary)])
             groups == groupby_email(combined_df)
         IN  IF \E k \in 1..Len(groups) : agg_workout_types_raises(groups[k].rows)
             THEN {[exc |-> "TypeError", rows |-> <<>>]}
             ELSE LET leaderboard_df ==
                          [k \in 1..Len(groups) |->
                              leaderboard_row(groups[k].email, groups[k].rows)]
                  IN  {[exc |-> "", rows |-> with_rank(leaderboard_df, p)] :
                          p \in sort_values(leaderboard_df)}

(***************************************************************************)
(* save_results_to_db, db.py:79, and the outcomes of process_folder,       *)
(* main.py:70.  A filename is a sequence of pieces: "_" and the runs of    *)
(* other characters between the underscores.                               *)
(***************************************************************************)
\* r.filename.partition('_')[0], db.py:132
partition_head_EmptyWithoutDelimiter(filename) ==
    IF \E i \in 1..Len(filename) : filename[i] = "_"
    THEN (IF filename[1] = "_" THEN "" ELSE filename[1])
    ELSE ""

partition_head(filename) ==
    IF \E i \in 1..Len(filename) : filename[i] = "_"
    THEN (IF filename[1] = "_" THEN "" ELSE filename[1])
    ELSE filename[1]

ImageResult(filename, raw_text, health_data) ==
    [filename |-> filename, raw_text |-> raw_text, health_data |-> health_data]

\* the dict appended to excel_records for one result, db.py:126-153
excel_record(r) ==
    [email |-> partition_head(r.filename),
     steps |-> r.health_data.steps,
     calories_kcal |-> r.health_data.calories_kcal,
     distance_km |-> r.health_data.distance_km,
     active_time_minutes |-> r.health_data.active_time_minutes,
     workout_type |-> r.health_data.workout_type,
     total_points |-> r.health_data.total_points]

Saved(exc, files, lb) == [exc |-> exc, store |-> files, leaderboard |-> lb]

\* db.py:201-203, 255: the file is named fitness_data_<timestamp>.xlsx, with the
\* time to the second: it is a new file of its date folder, or, written within
\* the second of the folder's newest file, it has that file's name and replaces it
write_file(files, file) ==
    LET same == {i \in 1..Len(files) : files[i].folder = file.folder}
        newest == CHOOSE i \in same : \A j \in same : j <= i
    IN  {Append(files, file)}
        \cup (IF same = {} THEN {} ELSE {[files EXCEPT ![newest] = file]})

\* save_results_to_db: the exception it ends with ("" if none), the data folder
\* and the leaderboard file it leaves.  push_excel_to_github may fail each time.
save_results_to_db(folder_name, rs, files, lb) ==
    LET excel_records == [i \in 1..Len(rs) |-> excel_record(rs[i])]
        exported == export_records_to_excel(excel_records)
        file == [folder |-> folder_name, daily |-> excel_records, summary |-> exported.rows]
    IN  IF exported.exc # ""
        THEN {Saved(exported.exc, files, lb)}
        ELSE UNION {
                 {Saved("HTTPError", written, lb)}
                 \cup {IF new.exc # "" THEN Saved(new.exc, written, lb)
                                       ELSE Saved(push, written, new) :
                          new \in generate_leaderboard(written), push \in {"", "HTTPError"}} :
                 written \in write_file(files, file)}

\* main.py:109-112: an OCR failure is logged and the loop continues
on_ocr_failure == "continue"

\* main.py:116-121: LLMExtractionError becomes HTTP 500
on_llm_extraction_error_Continue == "continue"

on_llm_extraction_error == "raise"

\* what the loop body of process_folder does with one image, main.py:105-135
process_image(image) ==
    IF ~image.ocr.ok
    THEN [kind |-> on_ocr_failure, rec |-> NoHealth, text |-> <<>>]
    ELSE LET txt == strip(image.ocr.text)
             out == extract_health_data_from_text(txt, image.answer).result
         IN  IF out.exc = "" THEN [kind |-> "append", rec |-> out.rec, text |-> txt]
             ELSE IF out.exc = "LLMExtractionError"
             THEN [kind |-> on_llm_extraction_error, rec |-> NoHealth, text |-> txt]
             ELSE [kind |-> "raise_unexpected", rec |-> NoHealth, text |-> txt]

(***************************************************************************)
(* Inputs                                                                  *)
(***************************************************************************)
SeqsUpTo(S, n) == UNION {[1..k -> S] : k \in 0..n}

Texts == SeqsUpTo({" ", "x"}, MaxTextLen)

\* model outputs of any shape: braces, commas, junk and two members
ShapeTokens ==
    {LB, RB, COMMA, JUNK, Mem("steps", JInt(7000)), Mem("workout_type", JStr("cardio"))}

ShapeRaws == SeqsUpTo(ShapeTokens, MaxRawLen)

\* model outputs that are one JSON object: each key absent or with one value
StepsValues ==
    {JNull, JInt(-1), JInt(0), JInt(4000), JInt(9000), JInt(40000), JInt(40001),
     JInt(50000), JFloat(400009), JFloat(500005), JStr("50000"), JStrPad("7000"),
     JStr("12.5"), JStr("abc"), JBool(TRUE), JList}

WorkoutValues ==
    {JNull, JStr("cardio"), JStrPadUp("cardio"), JStr("sport"), JStr("yoga"),
     JStr("strength_training"), JStr("strength"), JStrPadUp("strength training"),
     JStr("strength-training"), JStr(""), JStr("walking"), JInt(5)}

CaloriesValues == {JNull, JFloat(2505), JStr("abc")}

Field(key, values) == {<<>>} \cup {<<Mem(key, v)>> : v \in values}

RECURSIVE with_commas(_)
with_commas(ms) ==
    IF Len(ms) <= 1 THEN ms
    ELSE <<Head(ms), COMMA>> \o with_commas(Tail(ms))

ObjectRaws ==
    {<<LB>> \o with_commas(s \o c \o d \o a \o w \o t) \o <<RB>> :
        s \in Field("steps", StepsValues),
        c \in Field("calories_kcal", CaloriesValues),
        d \in Field("distance_km", {JFloat(55)}),
        a \in Field("active_time_minutes", {JStr("12.5")}),
        w \in Field("workout_type", WorkoutValues),
        t \in Field("total_points", {JInt(9999)}) \cup Field("totalPoints", {JInt(9999)})}

Raws == ShapeRaws \cup ObjectRaws

CpSteps ==
    {-1, 0, 4000, 5000, 5001, 8000, 8001, 10000, 10001, 12000, 15000, 15001,
     20000, 20001, 25000, 50000}

CpWorkouts ==
    {NoneStr, SomeStr(""), SomeStr("walking"), SomeStr("sport"),
     SomeStr("strength_training"), SomeStr("cardio"), SomeStr("yoga")}

\* the records save_results_to_db hands over: total_points is the value
\* calculate_points gave the image
Record(email, steps, metrics, workout_type) ==
    [email |-> email,
     steps |-> Some(steps),
     calories_kcal |-> metrics[1],
     distance_km |-> metrics[2],
     active_time_minutes |-> metrics[3],
     workout_type |-> workout_type,
     total_points |-> Some(calculate_points(steps, workout_type))]

AggEmails == {"alice", "bob"}
AggSteps == {3000, 9000, 21000}
AggMetrics == {<<None, None, None>>, <<Some(2505), Some(55), Some(300)>>}
AggWorkouts == {NoneStr, SomeStr(""), SomeStr("cardio"), SomeStr("sport")}

AggRecords ==
    {Record(e, st, m, w) : e \in AggEmails, st \in AggSteps, m \in AggMetrics, w \in AggWorkouts}

\* the files a data folder can hold: each is the export of one day's records,
\* a day giving a user no image, one image without workout, one cardio
\* image, one sport image, or a sport and a cardio image
NoMetrics == <<None, None, None>>

Profile(email, kind) ==
    CASE kind = "absent" -> <<>>
      [] kind = "steps"  -> <<Record(email, 0, NoMetrics, NoneStr)>>
      [] kind = "cardio" -> <<Record(email, 0, <<Some(2505), Some(55), Some(300)>>, SomeStr("cardio"))>>
      [] kind = "sport"  -> <<Record(email, 0, NoMetrics, SomeStr("sport"))>>
      [] OTHER           -> <<Record(email, 0, NoMetrics, SomeStr("sport")),
                              Record(email, 20000, NoMetrics, SomeStr("cardio"))>>

ProfileKinds == {"absent", "steps", "cardio", "sport", "two"}
CarolKinds == {"absent", "cardio"}

DayRecords ==
    {Profile("bob", kb) \o Profile("alice", ka) \o Profile("carol.png", kc) :
        ka \in ProfileKinds, kb \in ProfileKinds, kc \in CarolKinds} \ {<<>>}

File(folder, recs) ==
    [folder |-> folder, daily |-> recs, summary |-> export_records_to_excel(recs).rows]

DayFiles == {File("2026-01-26", recs) : recs \in DayRecords}

\* a fitness_*.xlsx whose "Daily Summary" sheet holds the header row only:
\* generate_leaderboard reads whatever os.walk finds under the data folder
HeaderOnlyFile == [folder |-> "2026-01-25", daily |-> <<>>, summary |-> <<>>]

StoreFiles == DayFiles \cup {HeaderOnlyFile}

\* the images of a folder: the first n filenames, each with what OCR and the
\* model do for it
FileNames ==
    <<<<"alice", "_", "1.png">>, <<"carol.png">>, <<"bob", "_", "b", "_", "1.png">>,
      <<"alice", "_", "2.png">>, <<"bob", "_", "2.png">>>>

OcrFail == [ok |-> FALSE, text |-> <<>>]
OcrText(t) == [ok |-> TRUE, text |-> t]

BatchAnswers ==
    {CallFails,
     Answer(<<JUNK>>),
     Answer(<<JUNK, LB, Mem("steps", JInt(7000))>>),
     Answer(<<JUNK, LB, Mem("steps", JInt(7000)), COMMA, Mem("workout_type", JStr("cardio")), RB>>),
     Answer(<<LB, Mem("steps", JInt(50000)), COMMA, Mem("workout_type", JStrPadUp("sport")), RB>>),
     Answer(<<LB, Mem("steps", JInt(9000)), COMMA, Mem("workout_type", JNull), RB>>),
     Answer(<<LB, Mem("steps", JNull), COMMA, Mem("workout_type", JStr("yoga")), RB>>)}

ImageOutcomes ==
    {[ocr |-> OcrFail, answer |-> CallFails],
     [ocr |-> OcrText(<<>>), answer |-> CallFails],
     [ocr |-> OcrText(<<" ">>), answer |-> CallFails]}
    \cup {[ocr |-> OcrText(<<"x", " ">>), answer |-> a] : a \in BatchAnswers}

RunOutcomes ==
    {[ocr |-> OcrFail, answer |-> CallFails],
     [ocr |-> OcrText(<<"x">>), answer |-> CallFails],
     [ocr |-> OcrText(<<"x">>), answer |-> Answer(<<JUNK>>)],
     [ocr |-> OcrText(<<"x">>),
      answer |-> Answer(<<LB, Mem("steps", JInt(7000)), COMMA, Mem("workout_type", JStr("cardio")), RB>>)],
     [ocr |-> OcrText(<<"x">>),
      answer |-> Answer(<<LB, Mem("steps", JInt(50000)), COMMA, Mem("workout_type", JStr("sport")), RB>>)]}

RunFolders ==
    UNION {{[i \in 1..n |-> [filename |-> FileNames[i], ocr |-> o[i].ocr, answer |-> o[i].answer]] :
               o \in [1..n -> RunOutcomes]} : n \in 0..MaxImages}

Folders ==
    UNION {{[i \in 1..n |-> [filename |-> FileNames[i], ocr |-> o[i].ocr, answer |-> o[i].answer]] :
               o \in [1..n -> ImageOutcomes]} : n \in 0..MaxImages}

(***************************************************************************)
(* Initial values of the variables an operation does not use               *)
(***************************************************************************)
IdleExtract == text = <<>> /\ llm_raw = <<>> /\ result = NotCalled /\ llm_calls = 0
IdlePoints == cp_steps = 0 /\ cp_workout = NoneStr /\ cp_points = None
IdleAgg == records = <<>> /\ summary = NoSummary /\ reordered = <<>> /\ summary2 = NoSummary
IdleLeader == store = <<>> /\ leaderboard = NoLeaderboard
IdleBatch == images = <<>> /\ idx = 1 /\ results = <<>> /\ save_calls = 0
IdleUpdate == sheet_b = <<>> /\ processed_set = {} /\ sheet_reads = 0 /\ touched = {}

(***************************************************************************)
(* SpecExtract: extract_health_data_from_text on one OCR text, with the    *)
(* answer the model gives if it is asked                                   *)
(***************************************************************************)
InitExtract ==
    /\ text \in Texts
    /\ llm_raw \in Raws
    /\ result = NotCalled
    /\ llm_calls = 0
    /\ pc = "start"
    /\ IdlePoints /\ IdleAgg /\ IdleLeader /\ IdleBatch /\ IdleUpdate

ExtractHealthDataFromText ==
    /\ pc = "start"
    /\ \E answer \in {Answer(llm_raw), CallFails} :
          LET out == extract_health_data_from_text(text, answer)
          IN  /\ result' = out.result
              /\ llm_calls' = llm_calls + (IF out.called THEN 1 ELSE 0)
    /\ pc' = "done"
    /\ UNCHANGED <<updateVars, text, llm_raw, pointsVars, aggVars, leaderVars, batchVars>>

NextExtract == ExtractHealthDataFromText

SpecExtract == InitExtract /\ [][NextExtract]_vars

(***************************************************************************)
(* SpecPoints: calculate_points called with an integer and a workout type  *)
(***************************************************************************)
InitPoints ==
    /\ cp_steps \in CpSteps
    /\ cp_workout \in CpWorkouts
    /\ cp_points = None
    /\ pc = "start"
    /\ IdleExtract /\ IdleAgg /\ IdleLeader /\ IdleBatch /\ IdleUpdate

CalculatePoints ==
    /\ pc = "start"
    /\ cp_points' = Some(calculate_points(cp_steps, cp_workout))
    /\ pc' = "done"
    /\ UNCHANGED <<updateVars, cp_steps, cp_workout, extractVars, aggVars, leaderVars, batchVars>>

NextPoints == CalculatePoints

SpecPoints == InitPoints /\ [][NextPoints]_vars

(***************************************************************************)
(* SpecAgg: export_records_to_excel on the records of one day              *)
(***************************************************************************)
InitAgg ==
    /\ records \in SeqsUpTo(AggRecords, MaxRecords)
    /\ summary = NoSummary
    /\ reordered = <<>>
    /\ summary2 = NoSummary
    /\ pc = "start"
    /\ IdleExtract /\ IdlePoints /\ IdleLeader /\ IdleBatch /\ IdleUpdate

ExportRecordsToExcel ==
    /\ pc = "start"
    /\ summary' = export_records_to_excel(records)
    /\ pc' = "done"
    /\ UNCHANGED <<updateVars, records, reordered, summary2, extractVars, pointsVars, leaderVars, batchVars>>

NextAgg == ExportRecordsToExcel

SpecAgg == InitAgg /\ [][NextAgg]_vars

(***************************************************************************)
(* SpecAggOrder: export_records_to_excel on the records of one day, and    *)
(* again on the same records handed over in another order                  *)
(***************************************************************************)
Reorderings(recs) ==
    {[i \in 1..Len(recs) |-> recs[p[i]]] :
        p \in {q \in [1..Len(recs) -> 1..Len(recs)] :
                  \A i, j \in 1..Len(recs) : i # j => q[i] # q[j]}}

ExportReordered ==
    /\ pc = "done"
    /\ \E recs \in Reorderings(records) :
          /\ reordered' = recs
          /\ summary2' = export_records_to_excel(recs)
    /\ pc' = "done2"
    /\ UNCHANGED <<updateVars, records, summary, extractVars, pointsVars, leaderVars, batchVars>>

NextAggOrder ==
    \/ ExportRecordsToExcel
    \/ ExportReordered

SpecAggOrder == InitAgg /\ [][NextAggOrder]_vars

(***************************************************************************)
(* SpecLeader: generate_leaderboard over the files of a data folder        *)
(***************************************************************************)
InitLeader ==
    /\ store \in SeqsUpTo(StoreFiles, MaxSheets)
    /\ leaderboard = NoLeaderboard
    /\ pc = "start"
    /\ IdleExtract /\ IdlePoints /\ IdleAgg /\ IdleBatch /\ IdleUpdate

GenerateLeaderboard ==
    /\ pc = "start"
    /\ \E lb \in generate_leaderboard(store) : leaderboard' = lb
    /\ pc' = "done"
    /\ UNCHANGED <<updateVars, store, extractVars, pointsVars, aggVars, batchVars>>

NextLeader == GenerateLeaderboard

SpecLeader == InitLeader /\ [][NextLeader]_vars

(***************************************************************************)
(* SpecBatch: one process_folder request on a folder, the data folder      *)
(* being empty before it                                                   *)
(***************************************************************************)
FolderName == "2026-01-26"

InitBatch ==
    /\ images \in Folders
    /\ idx = 1
    /\ results = <<>>
    /\ save_calls = 0
    /\ store = <<>>
    /\ leaderboard = NoLeaderboard
    /\ pc = "start"
    /\ IdleExtract /\ IdlePoints /\ IdleAgg /\ IdleUpdate

\* main.py:82-93: list_folder_images raises
ListImagesFails ==
    /\ pc = "start"
    /\ \E code \in {"http404", "http500_list"} : pc' = code
    /\ UNCHANGED <<updateVars, extractVars, pointsVars, aggVars, leaderVars, batchVars>>

\* main.py:95-101: no image, the response is returned at once
NoImages ==
    /\ pc = "start"
    /\ images = <<>>
    /\ pc' = "ok_empty"
    /\ UNCHANGED <<updateVars, extractVars, pointsVars, aggVars, leaderVars, batchVars>>

ListImages ==
    /\ pc = "start"
    /\ images # <<>>
    /\ pc' = "loop"
    /\ UNCHANGED <<updateVars, extractVars, pointsVars, aggVars, leaderVars, batchVars>>

\* main.py:107-112
OcrFails ==
    /\ pc = "loop"
    /\ idx <= Len(images)
    /\ ~images[idx].ocr.ok
    /\ IF process_image(images[idx]).kind = "continue"
       THEN idx' = idx + 1 /\ pc' = pc
       ELSE idx' = idx /\ pc' = "http500_unexpected"
    /\ UNCHANGED <<updateVars, images, results, save_calls, extractVars, pointsVars, aggVars, leaderVars>>

\* main.py:114-135: a record is extracted and appended
ExtractOk ==
    /\ pc = "loop"
    /\ idx <= Len(images)
    /\ images[idx].ocr.ok
    /\ LET step == process_image(images[idx])
       IN  /\ step.kind = "append"
           /\ results' = Append(results, ImageResult(images[idx].filename, step.text, step.rec))
    /\ idx' = idx + 1
    /\ UNCHANGED <<updateVars, pc, images, save_calls, extractVars, pointsVars, aggVars, leaderVars>>

\* main.py:116-121: LLMExtractionError
ExtractLLMError ==
    /\ pc = "loop"
    /\ idx <= Len(images)
    /\ images[idx].ocr.ok
    /\ LET out == extract_health_data_from_text(strip(images[idx].ocr.text), images[idx].answer).result
       IN  out.exc = "LLMExtractionError"
    /\ IF process_image(images[idx]).kind = "raise"
       THEN idx' = idx /\ pc' = "http500_llm"
       ELSE idx' = idx + 1 /\ pc' = pc
    /\ UNCHANGED <<updateVars, images, results, save_calls, extractVars, pointsVars, aggVars, leaderVars>>

\* main.py:122-127: any other exception of the extraction
ExtractUnexpected ==
    /\ pc = "loop"
    /\ idx <= Len(images)
    /\ images[idx].ocr.ok
    /\ process_image(images[idx]).kind = "raise_unexpected"
    /\ pc' = "http500_unexpected"
    /\ UNCHANGED <<updateVars, extractVars, pointsVars, aggVars, leaderVars, batchVars>>

\* main.py:137-156: save_results_to_db, then the response
SaveResults ==
    /\ pc = "loop"
    /\ idx > Len(images)
    /\ save_calls' = save_calls + 1
    /\ \E saved \in save_results_to_db(FolderName, results, store, leaderboard) :
          /\ store' = saved.store
          /\ leaderboard' = saved.leaderboard
          /\ pc' = IF saved.exc = "" THEN "ok" ELSE "http500_save"
    /\ UNCHANGED <<updateVars, images, idx, results, extractVars, pointsVars, aggVars>>

\* the next request to /process-folder, for the same date folder, whose images
\* may have changed meanwhile
NextRequest ==
    /\ pc \in {"http404", "http500_list", "ok_empty", "ok",
               "http500_llm", "http500_unexpected", "http500_save"}
    /\ save_calls < MaxRuns
    /\ images' \in RunFolders
    /\ idx' = 1
    /\ results' = <<>>
    /\ pc' = "start"
    /\ UNCHANGED <<updateVars, save_calls, extractVars, pointsVars, aggVars, leaderVars>>

NextBatch ==
    \/ ListImagesFails
    \/ NoImages
    \/ ListImages
    \/ OcrFails
    \/ ExtractOk
    \/ ExtractLLMError
    \/ ExtractUnexpected
    \/ SaveResults

SpecBatch == InitBatch /\ [][NextBatch]_vars

(***************************************************************************)
(* SpecRuns: process_folder requests one after the other on the same date  *)
(* folder, the data folder being empty before the first                    *)
(***************************************************************************)
InitRuns ==
    /\ images \in RunFolders
    /\ idx = 1
    /\ results = <<>>
    /\ save_calls = 0
    /\ store = <<>>
    /\ leaderboard = NoLeaderboard
    /\ pc = "start"
    /\ IdleExtract /\ IdlePoints /\ IdleAgg /\ IdleUpdate

NextRuns ==
    \/ NextBatch
    \/ NextRequest

SpecRuns == InitRuns /\ [][NextRuns]_vars

(***************************************************************************)
(* SpecUpdate: one update_folder request, main.py:249.  sheet_b is column  *)
(* B (filename) of the "Daily Data" sheet of the destination workbook, a   *)
(* cell being a filename, the header "filename" or <<>> when it is empty;  *)
(* touched is the set of images handed to ocr_image.                       *)
(***************************************************************************)
SheetColumns ==
    {<<<<"filename">>>> \o cells :
        cells \in {<<>>, <<FileNames[1]>>, <<FileNames[2]>>, <<FileNames[1], FileNames[2]>>,
                   <<FileNames[3], <<>>, FileNames[1]>>,
                   <<FileNames[1], FileNames[2], FileNames[3]>>}}

\* read_column_values: [cell.value for cell in sheet[col] if cell.value]
read_column_values(column) == SelectSeq(column, LAMBDA cell : cell # <<>>)

\* img_name in processed_set, main.py:335
is_processed_Never(img_name, processed) == FALSE

is_processed(img_name, processed) == img_name \in processed

\* update_results_to_excel: a row is appended to the sheet for every result
update_results_to_excel(column, rs) == column \o [i \in 1..Len(rs) |-> rs[i].filename]

InitUpdate ==
    /\ images \in RunFolders
    /\ idx = 1
    /\ results = <<>>
    /\ save_calls = 0
    /\ sheet_b \in SheetColumns
    /\ processed_set = {}
    /\ sheet_reads = 0
    /\ touched = {}
    /\ pc = "start"
    /\ IdleExtract /\ IdlePoints /\ IdleAgg /\ IdleLeader

\* main.py:267-301: the destination folder, the workbook or the sheet is missing
UpdateSetupFails ==
    /\ pc = "start"
    /\ \E code \in {"http404_dest", "http500_dest", "http404_nofile", "http500_workbook"} :
          pc' = code
    /\ UNCHANGED <<extractVars, pointsVars, aggVars, leaderVars, batchVars, updateVars>>

\* main.py:303-304
ReadProcessedImages ==
    /\ pc = "start"
    /\ LET processed_images == read_column_values(sheet_b)
       IN  processed_set' = {processed_images[i] : i \in 1..Len(processed_images)}
    /\ sheet_reads' = sheet_reads + 1
    /\ pc' = "listing"
    /\ UNCHANGED <<sheet_b, touched, extractVars, pointsVars, aggVars, leaderVars, batchVars>>

\* main.py:307-318
ListSourceFails ==
    /\ pc = "listing"
    /\ \E code \in {"http404", "http500_list"} : pc' = code
    /\ UNCHANGED <<extractVars, pointsVars, aggVars, leaderVars, batchVars, updateVars>>

\* main.py:320-327
NoSourceImages ==
    /\ pc = "listing"
    /\ images = <<>>
    /\ pc' = "ok_empty"
    /\ UNCHANGED <<extractVars, pointsVars, aggVars, leaderVars, batchVars, updateVars>>

ListSourceImages ==
    /\ pc = "listing"
    /\ images # <<>>
    /\ pc' = "loop"
    /\ UNCHANGED <<extractVars, pointsVars, aggVars, leaderVars, batchVars, updateVars>>

\* main.py:335-337
SkipProcessed ==
    /\ pc = "loop"
    /\ idx <= Len(images)
    /\ is_processed(images[idx].filename, processed_set)
    /\ idx' = idx + 1
    /\ UNCHANGED <<pc, images, results, save_calls, updateVars,
                   extractVars, pointsVars, aggVars, leaderVars>>

\* main.py:341-346
UpdateOcrFails ==
    /\ pc = "loop"
    /\ idx <= Len(images)
    /\ ~is_processed(images[idx].filename, processed_set)
    /\ ~images[idx].ocr.ok
    /\ touched' = touched \cup {images[idx].filename}
    /\ idx' = idx + 1
    /\ UNCHANGED <<pc, images, results, save_calls, sheet_b, processed_set, sheet_reads,
                   extractVars, pointsVars, aggVars, leaderVars>>

\* main.py:348-369: a record is extracted and appended
UpdateExtractOk ==
    /\ pc = "loop"
    /\ idx <= Len(images)
    /\ ~is_processed(images[idx].filename, processed_set)
    /\ images[idx].ocr.ok
    /\ LET step == process_image(images[idx])
       IN  /\ step.kind = "append"
           /\ results' = Append(results, ImageResult(images[idx].filename, step.text, step.rec))
    /\ touched' = touched \cup {images[idx].filename}
    /\ idx' = idx + 1
    /\ UNCHANGED <<pc, images, save_calls, sheet_b, processed_set, sheet_reads,
                   extractVars, pointsVars, aggVars, leaderVars>>

\* main.py:350-361: the extraction raises
UpdateExtractFails ==
    /\ pc = "loop"
    /\ idx <= Len(images)
    /\ ~is_processed(images[idx].filename, processed_set)
    /\ images[idx].ocr.ok
    /\ LET step == process_image(images[idx])
       IN  /\ step.kind \in {"raise", "raise_unexpected"}
           /\ pc' = IF step.kind = "raise" THEN "http500_llm" ELSE "http500_unexpected"
    /\ touched' = touched \cup {images[idx].filename}
    /\ UNCHANGED <<batchVars, sheet_b, processed_set, sheet_reads,
                   extractVars, pointsVars, aggVars, leaderVars>>

\* main.py:371-396: the workbook is updated, or the update fails
SaveUpdatedExcel ==
    /\ pc = "loop"
    /\ idx > Len(images)
    /\ save_calls' = save_calls + 1
    /\ \/ sheet_b' = update_results_to_excel(sheet_b, results) /\ pc' = "ok"
       \/ sheet_b' = sheet_b /\ pc' = "http500_save"
    /\ UNCHANGED <<images, idx, results, processed_set, sheet_reads, touched,
                   extractVars, pointsVars, aggVars, leaderVars>>

NextUpdate ==
    \/ UpdateSetupFails
    \/ ReadProcessedImages
    \/ ListSourceFails
    \/ NoSourceImages
    \/ ListSourceImages
    \/ SkipProcessed
    \/ UpdateOcrFails
    \/ UpdateExtractOk
    \/ UpdateExtractFails
    \/ SaveUpdatedExcel

SpecUpdate == InitUpdate /\ [][NextUpdate]_vars

(***************************************************************************)
(* The tables of the scoring policy, as the specification states them      *)
(***************************************************************************)
StepBucket(steps) ==
    CASE steps <= 5000  -> 25
      [] steps > 5000 /\ steps <= 8000 -> 35
      [] steps > 8000 /\ steps <= 10000 -> 80
      [] steps > 10000 /\ steps <= 15000 -> 150
      [] steps > 15000 /\ steps <= 20000 -> 300
      [] OTHER -> 500

WorkoutBonus(w) ==
    CASE ~w.none /\ w.v = "sport" -> 300
      [] ~w.none /\ w.v = "strength_training" -> 300
      [] ~w.none /\ w.v = "cardio" -> 200
      [] ~w.none /\ w.v = "yoga" -> 200
      [] OTHER -> 0

\* the model was asked and answered llm_raw, and parse_health_json has run on it
Parsed == pc = "done" /\ llm_calls = 1 /\ result.exc # "APIError"

\* the first "{" and the last "}" of the answer, as positions 1..Len
Braces(raw, t) == {i \in 1..Len(raw) : raw[i].t = t}
FirstOpen(raw) == CHOOSE i \in Braces(raw, "{") : \A j \in Braces(raw, "{") : i <= j
LastClose(raw) == CHOOSE i \in Braces(raw, "}") : \A j \in Braces(raw, "}") : i >= j
HasSpan(raw) ==
    /\ Braces(raw, "{") # {}
    /\ Braces(raw, "}") # {}
    /\ FirstOpen(raw) <= LastClose(raw)
Span(raw) == SubSeq(raw, FirstOpen(raw), LastClose(raw))
IsObject(raw) == HasSpan(raw) /\ json_valid(Span(raw))

\* the value a key has in the answer's JSON object
FieldOf(raw, key) == obj_get(json_loads(Span(raw)), key)

(***************************************************************************)
(* C2 (as stated): calculate_points returns the step bucket plus the       *)
(* workout bonus, e.g. calculate_points(4000, cardio) = 225.               *)
(***************************************************************************)
C2_BucketPlusBonus ==
    pc = "done" /\ ~cp_points.none =>
        cp_points.v = StepBucket(cp_steps) + WorkoutBonus(cp_workout)

(***************************************************************************)
(* C2 (amended): calculate_points returns the workout bonus alone, for     *)
(* every steps value: (4000, cardio) gives 200, (12000, yoga) gives 200    *)
(* and (25000, null) gives 0.                                              *)
(***************************************************************************)
C2_BonusOnly ==
    pc = "done" /\ ~cp_points.none =>
        /\ cp_points.v = WorkoutBonus(cp_workout)
        /\ (cp_steps = 4000 /\ cp_workout = SomeStr("cardio") => cp_points.v = 200)
        /\ (cp_steps = 12000 /\ cp_workout = SomeStr("yoga") => cp_points.v = 200)
        /\ (cp_steps = 25000 /\ cp_workout = NoneStr => cp_points.v = 0)

C2_Witness ==
    /\ pc = "done"
    /\ cp_steps = 12000
    /\ cp_workout = SomeStr("yoga")
    /\ cp_points = Some(200)

(***************************************************************************)
(* C3: the totalPoints of every record parse_health_json returns is the    *)
(* workout bonus of the record's normalized workoutType, whatever the      *)
(* steps of the input are.                                                 *)
(***************************************************************************)
C3_PerImageBonusOnly ==
    Parsed /\ result.exc = "" =>
        result.rec.total_points = Some(WorkoutBonus(result.rec.workout_type))

C3_Witness ==
    /\ Parsed
    /\ result.exc = ""
    /\ IsObject(llm_raw)
    /\ FieldOf(llm_raw, "steps") = JInt(9000)
    /\ result.rec.workout_type = SomeStr("cardio")
    /\ result.rec.total_points = Some(200)

(***************************************************************************)
(* C4: when the steps field of the input parses to an integer above        *)
(* 40000, the steps of the returned record is exactly 0.                   *)
(***************************************************************************)
C4_ImplausibleStepsBecomeZero ==
    /\ Parsed
    /\ result.exc = ""
    /\ IsObject(llm_raw)
    /\ ~to_int(FieldOf(llm_raw, "steps")).none
    /\ to_int(FieldOf(llm_raw, "steps")).v > 40000
    => result.rec.steps = Some(0)

(***************************************************************************)
(* C5: a JSON object whose fields are missing, null or of the wrong type   *)
(* always yields a record: parse_health_json raises nothing.               *)
(***************************************************************************)
C5_FieldInvalidityNeverRaises ==
    Parsed /\ IsObject(llm_raw) => result.exc = ""

(***************************************************************************)
(* C6: an answer with no "{" ... "}" span, or whose span is not valid      *)
(* JSON, makes parse_health_json fail with LLMExtractionError, and no      *)
(* record is returned.                                                     *)
(***************************************************************************)
C6_MalformedOutputRaises ==
    Parsed /\ ~IsObject(llm_raw) =>
        result.exc = "LLMExtractionError" /\ result.rec = NoHealth

C6_Witness ==
    /\ Parsed
    /\ HasSpan(llm_raw)
    /\ ~json_valid(Span(llm_raw))
    /\ \E i \in 1..Len(llm_raw) : llm_raw[i].t = "mem"
    /\ result.exc = "LLMExtractionError"

(***************************************************************************)
(* C8: for an empty or whitespace-only text extract_health_data_from_text  *)
(* returns the zero-valued record and the model is never called.           *)
(***************************************************************************)
C8_BlankTextShortCircuits ==
    pc = "done" /\ (\A i \in 1..Len(text) : text[i] = " ") =>
        /\ llm_calls = 0
        /\ result.exc = ""
        /\ result.rec.steps = Some(0)
        /\ result.rec.calories_kcal = Some(0)
        /\ result.rec.distance_km = Some(0)
        /\ result.rec.active_time_minutes = Some(0)
        /\ result.rec.total_points = Some(0)
        /\ (result.rec.workout_type.none \/ result.rec.workout_type.v = "")

C8_Witness ==
    /\ pc = "done"
    /\ Len(text) > 0
    /\ \A i \in 1..Len(text) : text[i] = " "
    /\ llm_calls = 0
    /\ result.rec.total_points = Some(0)


(***************************************************************************)
(* C1: every user with records that day has one summary row, whose         *)
(* totalSteps is the maximum of the user's steps and whose totalPoints is  *)
(* the sum of the user's per-image totalPoints plus one step bucket of     *)
(* totalSteps; steps {3000, 9000} with workouts {cardio, null} give 9000   *)
(* and 280.                                                                *)
(***************************************************************************)
RowsOf(email) == {i \in 1..Len(summary.rows) : summary.rows[i].email = email}
ImagesOf(email) == {i \in 1..Len(records) : records[i].email = email}

RECURSIVE PointsOver(_)
PointsOver(I) ==
    IF I = {} THEN 0
    ELSE LET i == CHOOSE j \in I : TRUE
         IN  records[i].total_points.v + PointsOver(I \ {i})

CardioAndNull(email) ==
    \E i, j \in ImagesOf(email) :
        /\ ImagesOf(email) = {i, j}
        /\ records[i].steps = Some(3000)
        /\ records[i].workout_type = SomeStr("cardio")
        /\ records[j].steps = Some(9000)
        /\ records[j].workout_type = NoneStr

C1_DailyAggregation ==
    pc = "done" /\ records # <<>> =>
        /\ summary.exc = ""
        /\ \A e \in {records[i].email : i \in 1..Len(records)} :
              /\ Cardinality(RowsOf(e)) = 1
              /\ \A k \in RowsOf(e) :
                    LET row == summary.rows[k]
                    IN  /\ ~row.total_steps.none
                        /\ \E i \in ImagesOf(e) : records[i].steps = row.total_steps
                        /\ \A i \in ImagesOf(e) : records[i].steps.v <= row.total_steps.v
                        /\ row.total_points =
                               PointsOver(ImagesOf(e)) + StepBucket(row.total_steps.v)
                        /\ (CardioAndNull(e) =>
                               row.total_steps = Some(9000) /\ row.total_points = 280)

C1_Witness ==
    /\ pc = "done"
    /\ CardioAndNull("alice")
    /\ \E k \in RowsOf("alice") :
          summary.rows[k].total_steps = Some(9000) /\ summary.rows[k].total_points = 280


(***************************************************************************)
(* C9: a leaderboard over N distinct users carries the ranks 1..N, one per *)
(* row, in row order, and a strictly larger totalPoints has a strictly     *)
(* smaller rank.                                                           *)
(***************************************************************************)
StoreUsers ==
    UNION {{store[f].summary[i].email : i \in 1..Len(store[f].summary)} : f \in 1..Len(store)}

Produced == pc = "done" /\ leaderboard.exc = ""

C9_RanksFollowPoints ==
    Produced =>
        LET rows == leaderboard.rows
            N == Cardinality(StoreUsers)
        IN  /\ Len(rows) = N
            /\ {rows[k].rank : k \in 1..Len(rows)} = 1..N
            /\ \A k \in 1..Len(rows) : rows[k].rank = k
            /\ \A a, b \in 1..Len(rows) :
                  rows[a].total_points > rows[b].total_points => rows[a].rank < rows[b].rank

C9_Witness ==
    /\ Produced
    /\ Len(leaderboard.rows) = 3
    /\ leaderboard.rows[1].total_points > leaderboard.rows[2].total_points
    /\ leaderboard.rows[2].total_points > leaderboard.rows[3].total_points
    /\ leaderboard.rows[3].rank = 3

(***************************************************************************)
(* C10: users with equal totalPoints are ranked in ascending userId order  *)
(* (so that the leaderboard of a set of summaries is the same on every     *)
(* build and for every order of reading them).                             *)
(***************************************************************************)
EmailIndex(e) == CHOOSE k \in 1..Len(EmailOrder) : EmailOrder[k] = e

C10_TiesByUserId ==
    Produced =>
        \A a, b \in 1..Len(leaderboard.rows) :
            /\ leaderboard.rows[a].total_points = leaderboard.rows[b].total_points
            /\ EmailIndex(leaderboard.rows[a].email) < EmailIndex(leaderboard.rows[b].email)
            => leaderboard.rows[a].rank < leaderboard.rows[b].rank


(***************************************************************************)
(* C7: in process_folder an OCR failure drops that image only and the loop *)
(* goes on, while a malformed model output on any image ends the request   *)
(* in an error with save_results_to_db never reached and nothing written.  *)
(***************************************************************************)
OcrFailed(i) == ~images[i].ocr.ok

Malformed(i) ==
    /\ images[i].ocr.ok
    /\ \E c \in 1..Len(images[i].ocr.text) : images[i].ocr.text[c] # " "
    /\ images[i].answer.ok
    /\ ~IsObject(images[i].answer.raw)

InBatch == pc \in {"loop", "ok", "http500_llm", "http500_unexpected", "http500_save"}

Kept == SelectSeq(SubSeq(images, 1, idx - 1), LAMBDA im : im.ocr.ok)

C7_OcrSkipsMalformedAborts ==
    InBatch =>
        /\ Len(results) = Len(Kept)
        /\ \A k \in 1..Len(results) : results[k].filename = Kept[k].filename
        /\ \A i \in 1..Len(images) :
              Malformed(i) =>
                  /\ idx <= i
                  /\ pc \in {"loop", "http500_llm", "http500_unexpected"}
                  /\ save_calls = 0
                  /\ store = <<>>
                  /\ leaderboard = NoLeaderboard
        /\ (pc = "http500_llm" => Malformed(idx))

C7_Witness ==
    /\ pc = "http500_llm"
    /\ Len(images) = 3
    /\ OcrFailed(1)
    /\ idx = 3
    /\ Malformed(3)
    /\ Len(results) = 1
    /\ results[1].filename = images[2].filename
    /\ save_calls = 0

(***************************************************************************)
(* C11: when the summary sheets under the data folder hold no row at all   *)
(* (no sheet, or only sheets without rows), generate_leaderboard fails     *)
(* with the empty-input error and no leaderboard is written.               *)
(***************************************************************************)
SummaryRows == concat([f \in 1..Len(store) |-> store[f].summary])

C11_EmptyInputFails ==
    pc = "done" /\ SummaryRows = <<>> => leaderboard.exc = "ValueError"

(***************************************************************************)
(* C12: a leaderboard has exactly one row for every userId of the input    *)
(* summaries and for no other, and each of its numeric fields is the sum   *)
(* of that field over the user's daily summary rows.                       *)
(***************************************************************************)
DaysOf(email) == {i \in 1..Len(SummaryRows) : SummaryRows[i].email = email}

NumericOf(row, col) ==
    IF col = "total_steps"
    THEN (IF row.total_steps.none THEN 0 ELSE row.total_steps.v)
    ELSE row[col]

RECURSIVE FieldOver(_, _)
FieldOver(I, col) ==
    IF I = {} THEN 0
    ELSE LET i == CHOOSE j \in I : TRUE
         IN  NumericOf(SummaryRows[i], col) + FieldOver(I \ {i}, col)

NumericFields ==
    {"total_steps", "total_calories_kcal", "total_distance_km",
     "total_active_time_minutes", "total_points"}

BoardRowsOf(email) ==
    {k \in 1..Len(leaderboard.rows) : leaderboard.rows[k].email = email}

C12_OneRowPerUserWithSums ==
    Produced =>
        /\ {leaderboard.rows[k].email : k \in 1..Len(leaderboard.rows)} = StoreUsers
        /\ \A e \in StoreUsers :
              /\ Cardinality(BoardRowsOf(e)) = 1
              /\ \A k \in BoardRowsOf(e) : \A col \in NumericFields :
                    leaderboard.rows[k][col] = FieldOver(DaysOf(e), col)

C12_Witness ==
    /\ Produced
    /\ Len(store) = 2
    /\ Cardinality(DaysOf("alice")) = 2
    /\ Cardinality(StoreUsers) = 2
    /\ \E k \in BoardRowsOf("alice") :
          /\ leaderboard.rows[k].total_steps = 40000
          /\ leaderboard.rows[k].total_points = 1600

(***************************************************************************)
(* C13: the workoutTypes of a leaderboard row is a deduplicated union: it  *)
(* is its workout types joined by ", ", each type appears at most once,    *)
(* and no empty or whitespace-padded token is among them.                  *)
(***************************************************************************)
WordsOf(str) == SelectSeq(str, LAMBDA piece : piece \notin {",", " "})

C13_WorkoutTypesDeduplicated ==
    Produced =>
        \A k \in 1..Len(leaderboard.rows) :
            LET wt == leaderboard.rows[k].workout_types
                words == WordsOf(wt)
            IN  /\ \A i, j \in 1..Len(words) : i # j => words[i] # words[j]
                /\ wt = join(<<",", " ">>, [i \in 1..Len(words) |-> <<words[i]>>])

(***************************************************************************)
(* C14: every record the extraction returns, on the parse path and on the  *)
(* empty-text path, has a workoutType that is null or one of sport,        *)
(* strength_training, cardio, yoga: the input trimmed and case-folded,     *)
(* with the three aliases mapped to strength_training, and null for every  *)
(* other value, the empty string included.                                 *)
(***************************************************************************)
ClosedSet == {"sport", "strength_training", "cardio", "yoga"}

Normalized(v) ==
    CASE v.ty # "str" -> NoneStr
      [] v.ty = "str" /\ v.s \in {"strength", "strength-training", "strength training"} ->
             SomeStr("strength_training")
      [] v.ty = "str" /\ v.s \in ClosedSet -> SomeStr(v.s)
      [] OTHER -> NoneStr

C14_WorkoutTypeClosedSet ==
    pc = "done" /\ result.exc = "" =>
        /\ result.rec.workout_type.none \/ result.rec.workout_type.v \in ClosedSet
        /\ (Parsed /\ IsObject(llm_raw) =>
               result.rec.workout_type = Normalized(FieldOf(llm_raw, "workout_type")))

(***************************************************************************)
(* C15: the daily aggregation does not depend on the order of its input:   *)
(* for the same records in any two orders export_records_to_excel gives    *)
(* the same set of summary rows, field by field, the workoutTypes string   *)
(* (the sorted distinct non-null types) included.                          *)
(***************************************************************************)
RowSet(sheet) == {sheet.rows[i] : i \in 1..Len(sheet.rows)}

Underscores(filename) == {i \in 1..Len(filename) : filename[i] = "_"}

IdentityToken(filename) ==
    IF Underscores(filename) = {}
    THEN filename
    ELSE SubSeq(filename, 1, (CHOOSE i \in Underscores(filename) :
                                  \A j \in Underscores(filename) : i <= j) - 1)

C16_UserIdBeforeFirstUnderscore ==
    save_calls = 1 /\ results # <<>> =>
        /\ Len(store) = 1
        /\ Len(store[1].daily) = Len(results)
        /\ \A i \in 1..Len(results) :
              IdentityToken(results[i].filename) =
                  IF store[1].daily[i].email = "" THEN <<>> ELSE <<store[1].daily[i].email>>

C16_Witness ==
    /\ save_calls = 1
    /\ Len(results) = 3
    /\ results[2].filename = <<"carol.png">>
    /\ store[1].daily[2].email = "carol.png"
    /\ results[3].filename = <<"bob", "_", "b", "_", "1.png">>
    /\ store[1].daily[3].email = "bob"
    /\ \E k \in 1..Len(store[1].summary) : store[1].summary[k].email = "carol.png"

(***************************************************************************)
(* C17: when the steps field of the input parses to an integer from 0 to   *)
(* 40000, the steps of the returned record is that integer (only a value   *)
(* above 40000 is replaced).                                               *)
(***************************************************************************)
C17_PlausibleStepsKept ==
    /\ Parsed
    /\ result.exc = ""
    /\ IsObject(llm_raw)
    /\ ~to_int(FieldOf(llm_raw, "steps")).none
    /\ to_int(FieldOf(llm_raw, "steps")).v \in 0..40000
    => result.rec.steps = to_int(FieldOf(llm_raw, "steps"))

(***************************************************************************)
(* C18: after any sequence of process-folder runs, also of the same date   *)
(* folder, the data folder holds at most one daily summary row for a user  *)
(* and a day, so that processing a day again adds nothing to a user's      *)
(* leaderboard totals.                                                     *)
(***************************************************************************)
SummaryPlaces ==
    UNION {{<<f, i>> : i \in 1..Len(store[f].summary)} : f \in 1..Len(store)}

C18_OneSummaryPerUserAndDay ==
    \A a, b \in SummaryPlaces :
        /\ store[a[1]].folder = store[b[1]].folder
        /\ store[a[1]].summary[a[2]].email = store[b[1]].summary[b[2]].email
        => a = b

(***************************************************************************)
(* C19: in an update_folder run the set of processed images is read once,  *)
(* before any image is processed, and not again; an image whose filename   *)
(* is in that snapshot is skipped without OCR or extraction, and every     *)
(* record of the run's results is of an image that is not in it.           *)
(***************************************************************************)
Cells(column) == {column[i] : i \in 1..Len(column)} \ {<<>>}

C19_SnapshotReadOnce ==
    /\ sheet_reads <= 1
    /\ (sheet_reads = 0 => touched = {} /\ results = <<>> /\ idx = 1)
    /\ (pc \in {"listing", "loop"} => sheet_reads = 1 /\ processed_set = Cells(sheet_b))
    /\ touched \cap processed_set = {}
    /\ \A k \in 1..Len(results) :
          results[k].filename \notin processed_set /\ results[k].filename \in touched
    /\ \A i \in 1..(idx - 1) :
          images[i].filename \in touched <=> images[i].filename \notin processed_set

C19_Witness ==
    /\ pc = "ok"
    /\ sheet_reads = 1
    /\ Len(images) = 3
    /\ images[1].filename \in processed_set
    /\ images[3].filename \in processed_set
    /\ touched = {images[2].filename}
    /\ Len(results) = 1
    /\ results[1].filename = images[2].filename

(***************************************************************************)
(* C20: a total_points or totalPoints member of the model's output has no  *)
(* influence on the record: whether parse_health_json returns a record,    *)
(* and the totalPoints of that record, are determined by the steps and     *)
(* workout_type members alone, the totalPoints being the recomputed value  *)
(* (so two outputs that agree on steps and workout_type get the same).     *)
(***************************************************************************)
Recomputed(raw) == WorkoutBonus(Normalized(FieldOf(raw, "workout_type")))

C20_SuppliedPointsIgnored ==
    Parsed /\ IsObject(llm_raw) =>
        /\ result.exc = "" <=> ~to_int(FieldOf(llm_raw, "steps")).none
        /\ result.exc = "" => result.rec.total_points = Some(Recomputed(llm_raw))

C20_Witness ==
    /\ Parsed
    /\ IsObject(llm_raw)
    /\ FieldOf(llm_raw, "total_points") = JInt(9999)
    /\ FieldOf(llm_raw, "steps") = JInt(4000)
    /\ FieldOf(llm_raw, "workout_type") = JStr("yoga")
    /\ result.rec.total_points = Some(200)

====
